---- MODULE Spec2Model ----
(***************************************************************************)
(* RTSTRUCT -> binary mask -> STL pipeline of src/stl.py and of its GUI    *)
(* variant src/stlComInterface.py.                                         *)
(*                                                                         *)
(* Conventions.                                                            *)
(*  - A DICOM string (ROIName, the requested structure name) is a sequence *)
(*    of one-character strings, so that str.lower() is computed character  *)
(*    by character.                                                        *)
(*  - Lengths in mm are integers.  A quotient of two of them (the          *)
(*    continuous row / column coordinates of a contour point) is a binary  *)
(*    fraction m / 2^e, the spacings being powers of two; float64 holds    *)
(*    these exactly.                                                       *)
(*  - Python sequences are 0-based; the sequences of the model are         *)
(*    1-based.  The mask and slice_idx keep the 0-based index of the code. *)
(*  - An exception is a record [type, line] (line of src/stl.py).          *)
(***************************************************************************)
EXTENDS Integers, Sequences, FiniteSets, TLC

\* ------------------------------------------------------------------ bounds
\* Largest number of .dcm image files in the CT folder.
MaxSlices == 4
\* Largest number of contours in one ContourSequence.
MaxContours == 2
\* Largest number of clicks on the Execute button (worker threads started).
MaxClicks == 2
\* Number of log lines after which "Ler estruturas" is no longer clicked.
MaxLogLines == 2

\* ------------------------------------------------------------ input domains
\* Through-plane positions (ImagePositionPatient[2]) an image slice may have.
SliceZ == {0, 2}
\* In-plane geometry of the image series: ImagePositionPatient[0..1],
\* PixelSpacing, Rows and Columns, shared by all slices of a series.
SeriesGeometry ==
    { [origin |-> <<0, 0>>,   PixelSpacing |-> <<1, 1>>, Rows |-> 3, Columns |-> 3],
      [origin |-> <<-1, -1>>, PixelSpacing |-> <<2, 1>>, Rows |-> 3, Columns |-> 2] }

\* In-plane outlines (x, y in mm) of the contours: bands that cross the grid
\* of either geometry from its first row to its last.
LargeBand   == << <<-1, -3>>, <<3, -3>>, <<3, 3>>, <<-1, 3>> >>
NestedBand  == << <<-1, -3>>, <<1, -3>>, <<1, 3>>, <<-1, 3>> >>
ShiftedBand == << <<1, -3>>, <<5, -3>>, <<5, 3>>, <<1, 3>> >>

\* The contours a ContourSequence is made of, as <<outline, z>>: a nested
\* pair, the inner one on the plane halfway between two slice positions, and
\* an outline that overlaps them, on a plane beyond the last position.
ContourChoices ==
    { <<LargeBand, 0>>, <<NestedBand, 1>>, <<ShiftedBand, 3>> }

\* What str.lower() changes among the characters of the Basic Latin and
\* Latin-1 blocks (U+0000 to U+00FF), the characters a name of the model is
\* written in: each capital letter, with its small letter.  Every other
\* character of the two blocks is left as it is, no character of them changes
\* the length of a name, and every small letter is again in the two blocks.
ToLower ==
    "A" :> "a" @@ "B" :> "b" @@ "C" :> "c" @@ "D" :> "d" @@ "E" :> "e" @@ "F" :> "f" @@
    "G" :> "g" @@ "H" :> "h" @@ "I" :> "i" @@ "J" :> "j" @@ "K" :> "k" @@ "L" :> "l" @@
    "M" :> "m" @@ "N" :> "n" @@ "O" :> "o" @@ "P" :> "p" @@ "Q" :> "q" @@ "R" :> "r" @@
    "S" :> "s" @@ "T" :> "t" @@ "U" :> "u" @@ "V" :> "v" @@ "W" :> "w" @@ "X" :> "x" @@
    "Y" :> "y" @@ "Z" :> "z" @@ "À" :> "à" @@ "Á" :> "á" @@ "Â" :> "â" @@ "Ã" :> "ã" @@
    "Ä" :> "ä" @@ "Å" :> "å" @@ "Æ" :> "æ" @@ "Ç" :> "ç" @@ "È" :> "è" @@ "É" :> "é" @@
    "Ê" :> "ê" @@ "Ë" :> "ë" @@ "Ì" :> "ì" @@ "Í" :> "í" @@ "Î" :> "î" @@ "Ï" :> "ï" @@
    "Ð" :> "ð" @@ "Ñ" :> "ñ" @@ "Ò" :> "ò" @@ "Ó" :> "ó" @@ "Ô" :> "ô" @@ "Õ" :> "õ" @@
    "Ö" :> "ö" @@ "Ø" :> "ø" @@ "Ù" :> "ù" @@ "Ú" :> "ú" @@ "Û" :> "û" @@ "Ü" :> "ü" @@
    "Ý" :> "ý" @@ "Þ" :> "þ"
\* Characters of the names that are enumerated freely.
Alphabet == {"a", "A", "é", "É"}
\* Lengths of the names that are enumerated freely.
NameLengths == 1..2
\* Numbers of ROIs in the structure sets whose names are enumerated freely.
ROICounts == 0..2

\* ------------------------------------------------------------ str helpers
\* str.lower(), one character of the two blocks.
LowerChar(c) == IF c \in DOMAIN ToLower THEN ToLower[c] ELSE c

\* str.lower()
Lower(s) == [i \in 1..Len(s) |-> LowerChar(s[i])]

\* The characters of the two blocks that str.lower() takes to the same
\* character as c: c, the small letter of the capital c and the capital of
\* the small letter c.
SameLetter(c) ==
    {c} \cup { ToLower[d] : d \in DOMAIN ToLower \cap {c} }
        \cup { d \in DOMAIN ToLower : ToLower[d] = c }
\* The spellings of s, in the two blocks, that differ from it in letter case
\* only.
CaseVariants(s) ==
    { t \in [1..Len(s) -> UNION { SameLetter(s[i]) : i \in 1..Len(s) }] :
        \A i \in 1..Len(s) : t[i] \in SameLetter(s[i]) }

\* -------------------------------------------------------- binary fractions
\* The float m / 2^e.  The spacings of the model are powers of two, so every
\* coordinate is such a number, which a float64 holds exactly, and the float
\* operations below give the exact result.
Dyadic(m, e) == [m |-> m, e |-> e]
FracOfInt(k) == Dyadic(k, 0)
\* The exponent of a power of two.
Log2(b) == CHOOSE e \in 0..b : 2^e = b
\* a / b for a length a and a spacing b that is a power of two (the "/" of
\* numpy on the offsets of a contour)
Div(a, b) == Dyadic(a, Log2(b))
FSub(p, q) == Dyadic(p.m * 2^(q.e) - q.m * 2^(p.e), p.e + q.e)
FMul(p, q) == Dyadic(p.m * q.m, p.e + q.e)
\* p >= q
FGeq(p, q) == p.m * 2^(q.e) >= q.m * 2^(p.e)

Abs(x) == IF x < 0 THEN -x ELSE x

\* Python's None, and a value that is not None.
None == <<>>
Some(v) == <<v>>

\* --------------------------------------------------------- Slice Stack Index
\* One step of list.sort(key=...): s goes after every element whose key is
\* not larger (the sort is stable).
InsertByZ(sorted, s) ==
    LET before == SelectSeq(sorted, LAMBDA t : t.ImagePositionPatient[3] <= s.ImagePositionPatient[3])
        after  == SelectSeq(sorted, LAMBDA t : t.ImagePositionPatient[3] > s.ImagePositionPatient[3])
    IN  before \o <<s>> \o after

RECURSIVE SortByZ(_)
\* slices.sort(key=lambda s: s.ImagePositionPatient[2])
SortByZ(files) ==
    IF files = <<>> THEN <<>>
    ELSE InsertByZ(SortByZ(SubSeq(files, 1, Len(files) - 1)), files[Len(files)])

\* z_positions = np.array([s.ImagePositionPatient[2] for s in slices])
ZPositions(sl) == [i \in 1..Len(sl) |-> sl[i].ImagePositionPatient[3]]

\* slice_thickness = abs(slices[1]...[2] - slices[0]...[2]), for len(sl) >= 2
SliceThickness(sl) == Abs(sl[2].ImagePositionPatient[3] - sl[1].ImagePositionPatient[3])

\* mask = np.zeros((len(slices), Rows, Columns))
ZeroMask(sl) ==
    [k \in 0..(Len(sl) - 1) |->
        [r \in 0..(sl[1].Rows - 1) |-> [c \in 0..(sl[1].Columns - 1) |-> 0]]]

\* --------------------------------------------------------------- ROI Resolver
RECURSIVE FindROI_CaseSensitive(_, _, _)
\* The loop with the names compared as they are spelled.
FindROI_CaseSensitive(rois, name, i) ==
    IF i > Len(rois) THEN None
    ELSE IF rois[i].ROIName = name THEN Some(rois[i].ROINumber)
    ELSE FindROI_CaseSensitive(rois, name, i + 1)

RECURSIVE FindROI(_, _, _)
\* the loop over StructureSetROISequence, from item i on: the ROINumber of the
\* first item whose lowered name equals the lowered requested name
FindROI(rois, name, i) ==
    IF i > Len(rois) THEN None
    ELSE IF Lower(rois[i].ROIName) = Lower(name) THEN Some(rois[i].ROINumber)
    ELSE FindROI(rois, name, i + 1)

\* structure_index after a loop that falls back on the first ROI.
ResolveROI_DefaultFirst(rois, name) ==
    IF FindROI(rois, name, 1) = None /\ rois # <<>>
    THEN Some(rois[1].ROINumber) ELSE FindROI(rois, name, 1)

\* structure_index after the loop
ResolveROI(rois, name) == FindROI(rois, name, 1)

\* get_structure_names
get_structure_names(rois) == [i \in 1..Len(rois) |-> rois[i].ROIName]

\* --------------------------------------------------------- Contour Rasterizer
Min(S) == CHOOSE x \in S : \A y \in S : x <= y

\* argmin of the signed differences.
ArgMinAbs_Signed(zpos, z) ==
    LET dist == [n \in 1..Len(zpos) |-> zpos[n] - z]
        m    == Min({dist[n] : n \in 1..Len(zpos)})
    IN  Min({n \in 1..Len(zpos) : dist[n] = m}) - 1

\* np.argmin(np.abs(z_positions - z)): the first index of the minimum, 0-based
ArgMinAbs(zpos, z) ==
    LET dist == [n \in 1..Len(zpos) |-> Abs(zpos[n] - z)]
        m    == Min({dist[n] : n \in 1..Len(zpos)})
    IN  Min({n \in 1..Len(zpos) : dist[n] = m}) - 1

\* The in-plane spacing component that divides the y offset (row_coords) and
\* the one that divides the x offset (col_coords).
RowDivisor(pixel_spacing) == pixel_spacing[2]
ColDivisor(pixel_spacing) == pixel_spacing[1]

\* row_coords = (pts[:, 1] - ImagePositionPatient[1]) / pixel_spacing[1]
RowCoords(pts, first, pixel_spacing) ==
    [i \in 1..Len(pts) |-> Div(pts[i][2] - first.ImagePositionPatient[2], RowDivisor(pixel_spacing))]
\* col_coords = (pts[:, 0] - ImagePositionPatient[0]) / pixel_spacing[0]
ColCoords(pts, first, pixel_spacing) ==
    [i \in 1..Len(pts) |-> Div(pts[i][1] - first.ImagePositionPatient[1], ColDivisor(pixel_spacing))]

\* One edge (v0 -> v1) of the crossings test of Path.contains_points for the
\* test point (tx, ty): the +X ray from the point crosses the edge.
EdgeCrosses(v0, v1, tx, ty) ==
    LET yflag0 == FGeq(v0.y, ty)
        yflag1 == FGeq(v1.y, ty)
    IN  /\ yflag0 # yflag1
        /\ (FGeq(FMul(FSub(v1.y, ty), FSub(v0.x, v1.x)),
                 FMul(FSub(v1.x, tx), FSub(v0.y, v1.y))) <=> yflag1)

\* Path.contains_points, one point: odd number of crossed edges of the
\* implicitly closed polygon; a path of fewer than 3 vertices contains no point
ContainsPoint(poly, tx, ty) ==
    LET n == Len(poly)
        crossed == { i \in 1..n : EdgeCrosses(poly[i], poly[(i % n) + 1], tx, ty) }
    IN  n >= 3 /\ Cardinality(crossed) % 2 = 1

\* mask_slice: inside.reshape((Rows, Columns)) of the contour pts
MaskSlice(pts, first, pixel_spacing) ==
    LET row_coords == RowCoords(pts, first, pixel_spacing)
        col_coords == ColCoords(pts, first, pixel_spacing)
        poly == [i \in 1..Len(pts) |-> [x |-> col_coords[i], y |-> row_coords[i]]]
    IN  [rr \in 0..(first.Rows - 1) |->
            [cc \in 0..(first.Columns - 1) |->
                ContainsPoint(poly, FracOfInt(cc), FracOfInt(rr))]]

\* mask[slice_idx] = mask_slice
AssignSlice_Overwrite(old, mask_slice) ==
    [r \in DOMAIN old |-> [c \in DOMAIN old[r] |-> IF mask_slice[r][c] THEN 1 ELSE 0]]

\* mask[slice_idx][mask_slice] = 1
AssignSlice(old, mask_slice) ==
    [r \in DOMAIN old |-> [c \in DOMAIN old[r] |->
        IF mask_slice[r][c] THEN 1 ELSE old[r][c]]]

\* ------------------------------------------------------- Isosurface Extractor
\* An exception: its Python type and the line of src/stl.py that raises it.
Raise(type, line) == [type |-> type, line |-> line]
NoError == [type |-> "none", line |-> 0]

\* The voxels of a mask, as <<slice, row, column>>.
Voxels(m) == { <<k, r, c>> : k \in DOMAIN m, r \in DOMAIN m[0], c \in DOMAIN m[0][0] }
ValueAt(m, v) == m[v[1]][v[2]][v[3]]

\* marching_cubes without the check of the level against the data range.
MarchingCubesRaises_ShapeOnly(m) ==
    \/ Cardinality(DOMAIN m) < 2
    \/ Cardinality(DOMAIN m[0]) < 2
    \/ Cardinality(DOMAIN m[0][0]) < 2

\* marching_cubes refuses a volume thinner than 2 along an axis, and a level
\* outside [min, max] of the volume: with level 0.5, an all-zero or all-one mask.
MarchingCubesRaises(m) ==
    \/ Cardinality(DOMAIN m) < 2
    \/ Cardinality(DOMAIN m[0]) < 2
    \/ Cardinality(DOMAIN m[0][0]) < 2
    \/ \A v \in Voxels(m) : ValueAt(m, v) = 0
    \/ \A v \in Voxels(m) : ValueAt(m, v) = 1

\* A grid edge is <<voxel, axis>>: from the voxel to its successor along the
\* axis (1 slice, 2 row, 3 column).
Succ(v, axis) == [v EXCEPT ![axis] = @ + 1]
InVolume(m, v) == v[1] \in DOMAIN m /\ v[2] \in DOMAIN m[0] /\ v[3] \in DOMAIN m[0][0]

\* A vertex lies at the middle of its edge (level 0.5 between 0 and 1), scaled
\* by the spacing of each axis.  Vertex coordinates are in units of 1/2 mm.
VertexOf(e, sp) ==
    [a \in 1..3 |-> (e[1][a] + Succ(e[1], e[2])[a]) * sp[a]]
\* The sequence f with every element worked out.
AsTuple(f) == SelectSeq(f, LAMBDA x : TRUE)

RECURSIVE Flatten(_)
Flatten(ss) == IF ss = <<>> THEN <<>> ELSE Head(ss) \o Flatten(Tail(ss))

\* The corners v0..v7 of a cell, as offsets <<slice, row, column>> from its
\* lowest corner: a cell is filled from im[z, y, x], im[z, y, x+1],
\* im[z, y+1, x+1], im[z, y+1, x] and the same four of slice z+1.
CubeCorners ==
    << <<0, 0, 0>>, <<0, 0, 1>>, <<0, 1, 1>>, <<0, 1, 0>>,
       <<1, 0, 0>>, <<1, 0, 1>>, <<1, 1, 1>>, <<1, 1, 0>> >>
\* The cube edges 0..11 of a cell, as the numbers of their two corners.
CubeEdgeEnds ==
    << <<0, 1>>, <<1, 2>>, <<2, 3>>, <<3, 0>>, <<4, 5>>, <<5, 6>>, <<6, 7>>, <<7, 4>>,
       <<0, 4>>, <<1, 5>>, <<2, 6>>, <<3, 7>> >>

\* The lookup tables of the cases 1 (one corner apart), 2 (two corners joined
\* by an edge) and 8 (the four corners of a side): the triangles of each
\* configuration, as cube edges.
TILING1 ==
    << <<0, 8, 3>>, <<0, 1, 9>>, <<1, 2, 10>>, <<3, 11, 2>>,
       <<4, 7, 8>>, <<9, 5, 4>>, <<10, 6, 5>>, <<7, 6, 11>>,
       <<7, 11, 6>>, <<10, 5, 6>>, <<9, 4, 5>>, <<4, 8, 7>>,
       <<3, 2, 11>>, <<1, 10, 2>>, <<0, 9, 1>>, <<0, 3, 8>> >>
TILING2 ==
    << <<1, 8, 3, 9, 8, 1>>, <<0, 11, 2, 8, 11, 0>>, <<4, 3, 0, 7, 3, 4>>,
       <<9, 2, 10, 0, 2, 9>>, <<0, 5, 4, 1, 5, 0>>, <<3, 10, 1, 11, 10, 3>>,
       <<1, 6, 5, 2, 6, 1>>, <<7, 2, 3, 6, 2, 7>>, <<9, 7, 8, 5, 7, 9>>,
       <<6, 8, 4, 11, 8, 6>>, <<10, 4, 9, 6, 4, 10>>, <<11, 5, 10, 7, 5, 11>>,
       <<11, 10, 5, 7, 11, 5>>, <<10, 9, 4, 6, 10, 4>>, <<6, 4, 8, 11, 6, 8>>,
       <<9, 8, 7, 5, 9, 7>>, <<7, 3, 2, 6, 7, 2>>, <<1, 5, 6, 2, 1, 6>>,
       <<3, 1, 10, 11, 3, 10>>, <<0, 4, 5, 1, 0, 5>>, <<9, 10, 2, 0, 9, 2>>,
       <<4, 0, 3, 7, 4, 3>>, <<0, 2, 11, 8, 0, 11>>, <<1, 3, 8, 9, 1, 8>> >>
TILING8 ==
    << <<9, 8, 10, 10, 8, 11>>, <<1, 5, 3, 3, 5, 7>>, <<0, 4, 2, 4, 6, 2>>,
       <<0, 2, 4, 4, 2, 6>>, <<1, 3, 5, 3, 7, 5>>, <<9, 10, 8, 10, 11, 8>> >>
\* The case and the configuration of a cell index, for the cases above.  The
\* index of a cell has bit i set when corner i is above the level.
CASES ==
    1 :> <<1, 0>> @@ 2 :> <<1, 1>> @@ 3 :> <<2, 0>> @@ 4 :> <<1, 2>> @@ 6 :> <<2, 3>> @@
    8 :> <<1, 3>> @@ 9 :> <<2, 1>> @@ 12 :> <<2, 5>> @@ 15 :> <<8, 0>> @@ 16 :> <<1, 4>> @@
    17 :> <<2, 2>> @@ 32 :> <<1, 5>> @@ 34 :> <<2, 4>> @@ 48 :> <<2, 8>> @@ 51 :> <<8, 1>> @@
    63 :> <<2, 12>> @@ 64 :> <<1, 6>> @@ 68 :> <<2, 6>> @@ 96 :> <<2, 10>> @@ 102 :> <<8, 3>> @@
    111 :> <<2, 14>> @@ 119 :> <<2, 16>> @@ 127 :> <<1, 8>> @@ 128 :> <<1, 7>> @@ 136 :> <<2, 7>> @@
    144 :> <<2, 9>> @@ 153 :> <<8, 2>> @@ 159 :> <<2, 13>> @@ 187 :> <<2, 17>> @@ 191 :> <<1, 9>> @@
    192 :> <<2, 11>> @@ 204 :> <<8, 4>> @@ 207 :> <<2, 15>> @@ 221 :> <<2, 19>> @@ 223 :> <<1, 10>> @@
    238 :> <<2, 21>> @@ 239 :> <<1, 11>> @@ 240 :> <<8, 5>> @@ 243 :> <<2, 18>> @@ 246 :> <<2, 22>> @@
    247 :> <<1, 12>> @@ 249 :> <<2, 20>> @@ 251 :> <<1, 13>> @@ 252 :> <<2, 23>> @@ 253 :> <<1, 14>> @@
    254 :> <<1, 15>>

\* Vectors of three components.
Plus(a, b) == <<a[1] + b[1], a[2] + b[2], a[3] + b[3]>>
Scale(k, a) == <<k * a[1], k * a[2], k * a[3]>>
\* The triangles of a cell, by cell index: consecutive triples of cube edges.
\* A cell with no corner or with every corner above the level has none.  The
\* tilings are those of the cases 1, 2 and 8.  The masks of the model are
\* bands of pixels that cross the grid, alone or over another band, and their
\* cells are of the cases 2 and 8; the lookup tables of the other cases are
\* not part of the model, and no tiling is defined for their indices.
Tiling ==
    [c \in {0, 255} \cup DOMAIN CASES |->
        IF c \in {0, 255} THEN <<>>
        ELSE IF CASES[c][1] = 1 THEN TILING1[CASES[c][2] + 1]
        ELSE IF CASES[c][1] = 2 THEN TILING2[CASES[c][2] + 1]
        ELSE TILING8[CASES[c][2] + 1]]

\* The 8 corners of the cell whose lowest corner is the voxel v, and whether
\* the cell lies in the volume.
CellCorners(v) == {v[1], v[1] + 1} \X {v[2], v[2] + 1} \X {v[3], v[3] + 1}
CellInVolume(m, v) == \A q \in CellCorners(v) : InVolume(m, q)
\* Corner q of the cell v, as a voxel.
Corner(v, q) == Plus(v, CubeCorners[q + 1])
\* The index of the cell v.
CaseIndex(m, v) ==
    ValueAt(m, Corner(v, 0)) + 2 * ValueAt(m, Corner(v, 1)) + 4 * ValueAt(m, Corner(v, 2))
      + 8 * ValueAt(m, Corner(v, 3)) + 16 * ValueAt(m, Corner(v, 4))
      + 32 * ValueAt(m, Corner(v, 5)) + 64 * ValueAt(m, Corner(v, 6))
      + 128 * ValueAt(m, Corner(v, 7))
\* The grid edge from the voxel p to the voxel q, or from q to p.
EdgeBetween(p, q) ==
    << IF p[1] + p[2] + p[3] < q[1] + q[2] + q[3] THEN p ELSE q,
       CHOOSE a \in 1..3 : p[a] # q[a] >>
\* The grid edge that is cube edge n of the cell v.
GridEdge(v, n) == EdgeBetween(Corner(v, CubeEdgeEnds[n + 1][1]), Corner(v, CubeEdgeEnds[n + 1][2]))
\* The grid edges of the cell v for the cube edges t.
GridEdges(v, t) == AsTuple([n \in 1..Len(t) |-> GridEdge(v, t[n])])
\* The grid edges the triangles of the cell v refer to, in order.
CellRefs(m, v) == GridEdges(v, Tiling[CaseIndex(m, v)])

\* The lowest corners of the cells of the volume, in the order of the loop
\* over the cells: by slice, row, column.
CubeSeq(m) ==
    LET nR == Cardinality(DOMAIN m[0]) - 1
        nC == Cardinality(DOMAIN m[0][0]) - 1
        nK == Cardinality(DOMAIN m) - 1
    IN  [n \in 1..(nK * nR * nC) |->
            <<(n - 1) \div (nR * nC), ((n - 1) \div nC) % nR, (n - 1) % nC>>]

\* The elements of refs at the given places, and each element of refs at its
\* first place.
Picked(refs, places) == AsTuple([q \in 1..Len(places) |-> refs[places[q]]])
FirstSeen(refs) ==
    Picked(refs, SelectSeq([n \in 1..Len(refs) |-> n],
                           LAMBDA n : \A k \in 1..(n - 1) : refs[k] # refs[n]))
\* The grid edges the triangles of the cells cs refer to, cell after cell.
RefsOver(m, cs) == Flatten(AsTuple([n \in 1..Len(cs) |-> CellRefs(m, cs[n])]))
\* The crossed edges in the order of the vertex list: a vertex is added when
\* the loop over the cells first comes to a triangle that refers to it.
CrossedEdges(m) == FirstSeen(RefsOver(m, CubeSeq(m)))

\* The gradient the cell v takes at its corner q: along each axis, the value
\* at the low end of the cell edge through q minus the value at its high end
\* (it points from the occupied side to the empty side).
CornerGradient(m, v, q) ==
    LET d(a) == ValueAt(m, [q EXCEPT ![a] = v[a]]) - ValueAt(m, [q EXCEPT ![a] = v[a] + 1])
    IN  <<d(1), d(2), d(3)>>
\* The up to 4 cells around the edge e, as lowest corners.
CellsAround(e) ==
    LET p == e[1]
        b == IF e[2] = 1 THEN <<2, 3>> ELSE IF e[2] = 2 THEN <<1, 3>> ELSE <<1, 2>>
        cell(s, t) == [p EXCEPT ![b[1]] = @ - s, ![b[2]] = @ - t]
    IN  <<cell(0, 0), cell(0, 1), cell(1, 0), cell(1, 1)>>
\* How many places of rs hold e.
Count(rs, e) == Cardinality({ n \in 1..Len(rs) : rs[n] = e })
\* The corner of the cell v whose gradient is read for the end q of an edge.
\* The gradients are stored by corner number (v0..v7, going round each slice
\* of the cell) and read at dz * 4 + dy * 2 + dx, the place of q in the cell:
\* the two agree on the low row of the cell (corners 0, 1, 4, 5); on its high
\* row the gradient of the corner at the other column is read (2 for 3, 3 for
\* 2, 6 for 7, 7 for 6).
GradientRead(v, q) ==
    IF q[2] = v[2] + 1 THEN [q EXCEPT ![3] = 2 * v[3] + 1 - q[3]] ELSE q
\* What one triangle of the cell v adds to the normal of its vertex on e: the
\* gradients read for the two ends of the edge, which weigh the same at level
\* 0.5.  Every triangle of the cell that refers to e adds it once.
CellNormal(m, v, e) ==
    IF CellInVolume(m, v)
    THEN Scale(Count(CellRefs(m, v), e),
               Plus(CornerGradient(m, v, GradientRead(v, e[1])),
                    CornerGradient(m, v, GradientRead(v, Succ(e[1], e[2])))))
    ELSE <<0, 0, 0>>
RECURSIVE SumOver(_, _, _)
\* What the triangles of the cells cs add to the normal of the vertex on e.
SumOver(m, cs, e) ==
    IF cs = <<>> THEN <<0, 0, 0>>
    ELSE Plus(CellNormal(m, Head(cs), e), SumOver(m, Tail(cs), e))
RECURSIVE GCD(_, _)
GCD(x, y) == IF y = 0 THEN x ELSE GCD(y, x % y)
\* A vector scaled to unit length, kept as the shortest integer vector of its
\* direction; the null vector is left as it is.
Unit(g) ==
    LET d == GCD(GCD(Abs(g[1]), Abs(g[2])), Abs(g[3]))
    IN  IF d = 0 THEN g ELSE <<g[1] \div d, g[2] \div d, g[3] \div d>>
\* The normal of the vertex on e: what the triangles of the cells around the
\* edge add, scaled to unit length.
NormalOf(m, e) == Unit(SumOver(m, CellsAround(e), e))

\* The 0-based index of the vertex on e in the vertex list es.
IndexOf(es, e) == (CHOOSE k \in 1..Len(es) : es[k] = e) - 1
\* The triangles rs as vertex indices, each with its columns reversed.
FacesOf(rs, es) ==
    AsTuple([t \in 1..(Len(rs) \div 3) |->
        <<IndexOf(es, rs[3 * t]), IndexOf(es, rs[3 * t - 1]), IndexOf(es, rs[3 * t - 2])>>])
\* The triangles of the cell v, as vertex indices (0-based, as in the faces
\* array).  The columns of the faces array are reversed on return
\* (gradient_direction = "descent", the default).
CubeFaces(m, es, v) == FacesOf(CellRefs(m, v), es)

\* The mesh over the crossed edges es.
MeshOver(m, es, sp) ==
    LET cs == CubeSeq(m)
    IN  [verts   |-> [n \in 1..Len(es) |-> VertexOf(es[n], sp)],
         faces   |-> Flatten([n \in 1..Len(cs) |-> CubeFaces(m, es, cs[n])]),
         normals |-> [n \in 1..Len(es) |-> NormalOf(m, es[n])]]

\* verts, faces, normals = measure.marching_cubes(mask, level=0.5, spacing=...)
MarchingCubes(m, sp) == MeshOver(m, CrossedEdges(m), sp)

\* spacing=(slice_thickness, pixel_spacing[0], pixel_spacing[1])
McSpacing(slice_thickness, pixel_spacing) ==
    <<slice_thickness, pixel_spacing[1], pixel_spacing[2]>>

\* ------------------------------------------------- Mesh Normalizer & Exporter
\* trimesh.Trimesh(vertices=verts, faces=faces, vertex_normals=normals).  The
\* constructor runs with process=True, its default: vertices that coincide in
\* position and in normal are merged into the first of them, the later ones
\* are dropped and the faces are re-indexed; with no coinciding vertices the
\* arrays are kept as they are.
Trimesh(vs, fs, ns) ==
    LET same(a, b) == vs[a] = vs[b] /\ ns[a] = ns[b]
        \* for each vertex, the first vertex it coincides with
        first == AsTuple([n \in 1..Len(vs) |-> Min({ m \in 1..n : same(m, n) })])
        kept  == SelectSeq([n \in 1..Len(vs) |-> n], LAMBDA n : first[n] = n)
        \* for each vertex, the 0-based index of that first vertex among the kept
        index == AsTuple([n \in 1..Len(vs) |->
                            Cardinality({ m \in 1..first[n] : first[m] = m }) - 1])
    IN  IF Len(kept) = Len(vs)
        THEN [vertices |-> vs, faces |-> fs, vertex_normals |-> ns]
        ELSE [vertices       |-> [q \in 1..Len(kept) |-> vs[kept[q]]],
              faces          |-> [f \in 1..Len(fs) |->
                                    <<index[fs[f][1] + 1], index[fs[f][2] + 1], index[fs[f][3] + 1]>>],
              vertex_normals |-> [q \in 1..Len(kept) |-> ns[kept[q]]]]

\* Twice the area of a triangle, squared: |(b - a) x (c - a)|^2.
Area2(a, b, c) ==
    LET u == [x \in 1..3 |-> b[x] - a[x]]
        w == [x \in 1..3 |-> c[x] - a[x]]
        n == <<u[2] * w[3] - u[3] * w[2], u[3] * w[1] - u[1] * w[3], u[1] * w[2] - u[2] * w[1]>>
    IN  n[1] * n[1] + n[2] * n[2] + n[3] * n[3]
FaceArea2(mesh, f) ==
    Area2(mesh.vertices[f[1] + 1], mesh.vertices[f[2] + 1], mesh.vertices[f[3] + 1])
RECURSIVE SumCenters(_, _)
\* The sum over the faces fs of the sum of their three vertices (three times
\* the centre of the triangle).
SumCenters(mesh, fs) ==
    IF fs = <<>> THEN <<0, 0, 0>>
    ELSE LET f == Head(fs)
             r == SumCenters(mesh, Tail(fs))
             c(x) == mesh.vertices[f[1] + 1][x] + mesh.vertices[f[2] + 1][x]
                       + mesh.vertices[f[3] + 1][x] + r[x]
         IN  <<c(1), c(2), c(3)>>
\* mesh.centroid: the mean of the centres of the triangles, weighted by their
\* areas.  An area is the square root of an integer q (over 2), so the mean is
\* kept as its terms: for each q, the sum of the centres (times 3) and the
\* number of the triangles of that area.  Its value is
\*   SUM_q sqrt(q) * sum[q] / (3 * SUM_q sqrt(q) * count[q]),
\* the plain mean of the centres when every area is 0.
Centroid(mesh) ==
    LET fs == mesh.faces
        qs == { FaceArea2(mesh, fs[n]) : n \in 1..Len(fs) }
        of(q) == SelectSeq(fs, LAMBDA f : FaceArea2(mesh, f) = q)
    IN  [q \in qs |-> [sum |-> SumCenters(mesh, of(q)), count |-> Len(of(q))]]

\* -c for a centroid c in terms.
Neg(c) == [minus |-> c]

\* mesh.apply_translation(t): t is added to every row of the vertex array; the
\* sum is kept as its two operands, the array as it was and t.
ApplyTranslation(mesh, t) ==
    [mesh EXCEPT !.vertices = [at |-> mesh.vertices, moved_by |-> t]]

\* ===================================================================== state
VARIABLES
    pc,               \* position of the run: read, resolve, contours, mask_to_stl,
                      \* build, normalize, export, done, failed
    ct_files,         \* the .dcm files of ct_folder, in os.listdir order
    rtstruct,         \* the loaded RTSTRUCT
    structure_name,   \* the requested ROI name
    slices, z_positions, pixel_spacing, slice_thickness, mask,
    structure_index,
    i, j,             \* the roi_contour and the contour the loops stand at
    error,            \* the exception that ended the run, or NoError
    spacing,          \* the spacing triple handed to marching_cubes
    verts, faces, normals,
    centroid, mesh,
    exported,         \* what mesh.export received, <<>> before
    entries,          \* GUI: entry_rt, entry_ct, combo_struct, entry_out
    combo_values,     \* GUI: the values of the combo box
    workers,          \* GUI: the process() threads started so far
    log_lines,        \* GUI: the number of calls of log
    out_file          \* GUI: the workers that wrote the output path, in order

pipeline_vars == <<pc, ct_files, rtstruct, structure_name, slices, z_positions,
                   pixel_spacing, slice_thickness, mask, structure_index, i, j,
                   error, spacing, verts, faces, normals, centroid, mesh, exported>>
gui_vars == <<entries, combo_values, workers, log_lines, out_file>>
vars == <<pipeline_vars, gui_vars>>

\* ----------------------------------------------------------------- inputs
Body == <<"B", "o", "d", "y">>
\* The structure name main() requests.
BolusECT_v9 == <<"B", "o", "l", "u", "s", "E", "C", "T", "_", "v", "9">>

\* One image file of a series with geometry g, at through-plane position z.
ImageSlice(file, g, z) ==
    [file |-> file, ImagePositionPatient |-> <<g.origin[1], g.origin[2], z>>,
     PixelSpacing |-> g.PixelSpacing, Rows |-> g.Rows, Columns |-> g.Columns]

\* The folders of at most n image files of a series with geometry g.
Folders(g, n, Z) ==
    UNION { { [f \in 1..k |-> ImageSlice(f, g, zs[f])] : zs \in [1..k -> Z] } : k \in 0..n }

\* A contour: ContourData reshaped to rows of (x, y, z).
Contour(poly, z) == [p \in 1..Len(poly) |-> <<poly[p][1], poly[p][2], z>>]
Contours == { Contour(p[1], p[2]) : p \in ContourChoices }
ContourSequences ==
    UNION { [1..k -> Contours] : k \in 0..MaxContours }

FixedContour == Contour(NestedBand, 0)

\* The names enumerated freely, and the structure sets made of them.
Names == UNION { [1..k -> Alphabet] : k \in NameLengths }
Numberings(n) == { f \in [1..n -> 1..n] : \A a, b \in 1..n : f[a] = f[b] => a = b }
ROISequences ==
    UNION { { [r \in 1..k |-> [ROIName |-> ns[r], ROINumber |-> nums[r]]] :
                ns \in [1..k -> Names], nums \in Numberings(k) } : k \in ROICounts }

\* Structure sets with two named ROIs and every combination of contours of
\* the second, which is requested in another letter case.
InitGeometry ==
    /\ \E g \in SeriesGeometry : ct_files \in Folders(g, MaxSlices, SliceZ)
    /\ \E cs \in ContourSequences :
         rtstruct =
           [StructureSetROISequence |->
               << [ROIName |-> Body, ROINumber |-> 1],
                  [ROIName |-> Lower(BolusECT_v9), ROINumber |-> 2] >>,
            ROIContourSequence |->
               << [ReferencedROINumber |-> 1, ContourSequence |-> <<FixedContour>>],
                  [ReferencedROINumber |-> 2, ContourSequence |-> cs] >>]
    /\ structure_name = BolusECT_v9

\* Every structure set of freely named ROIs, each with one contour, and every
\* requested name, over folders of zero, one or two slices.
InitNames ==
    /\ \E g \in { h \in SeriesGeometry : h.PixelSpacing = <<1, 1>> } :
         ct_files \in { f \in Folders(g, 2, {0, 2}) :
                          \A a \in 1..Len(f) : f[a].ImagePositionPatient[3] = 2 * (a - 1) }
    /\ \E rois \in ROISequences :
         rtstruct =
           [StructureSetROISequence |-> rois,
            ROIContourSequence |->
               [r \in 1..Len(rois) |->
                   [ReferencedROINumber |-> rois[r].ROINumber,
                    ContourSequence |-> <<FixedContour>>]]]
    /\ structure_name \in Names \cup {<<>>}

NoMesh == [vertices |-> <<>>, faces |-> <<>>, vertex_normals |-> <<>>]

InitLocals ==
    /\ pc = "read"
    /\ slices = <<>> /\ z_positions = <<>> /\ pixel_spacing = <<>>
    /\ slice_thickness = 0 /\ mask = <<>>
    /\ structure_index = None
    /\ i = 0 /\ j = 0
    /\ error = NoError
    /\ spacing = <<>>
    /\ verts = <<>> /\ faces = <<>> /\ normals = <<>>
    /\ centroid = <<>> /\ mesh = NoMesh
    /\ exported = <<>>

GuiIdle ==
    /\ entries = [rt |-> "", ct |-> "", struct |-> "", out |-> ""]
    /\ combo_values = <<>>
    /\ workers = <<>>
    /\ log_lines = 0
    /\ out_file = <<>>

Init == (InitGeometry \/ InitNames) /\ InitLocals /\ GuiIdle

\* ------------------------------------------------------------ the pipeline
\* Lines 59-66 with a single slice accepted: the thickness falls back on 0.
ReadSlices_SingleSliceAccepted ==
    /\ pc = "read"
    /\ LET sl == SortByZ(ct_files) IN
         /\ slices' = sl
         /\ z_positions' = ZPositions(sl)
         /\ IF Len(sl) = 0
            THEN /\ error' = Raise("IndexError", 63)
                 /\ pc' = "failed"
                 /\ UNCHANGED <<pixel_spacing, slice_thickness, mask>>
            ELSE /\ pixel_spacing' = sl[1].PixelSpacing
                 /\ slice_thickness' = IF Len(sl) = 1 THEN 0 ELSE SliceThickness(sl)
                 /\ mask' = ZeroMask(sl)
                 /\ pc' = "resolve"
                 /\ UNCHANGED error
    /\ UNCHANGED <<ct_files, rtstruct, structure_name, structure_index, i, j, spacing,
                   verts, faces, normals, centroid, mesh, exported>>
    /\ UNCHANGED gui_vars

\* extract_structure_mask, lines 59-66: read, sort, derive the geometry.
ReadSlices ==
    /\ pc = "read"
    /\ LET sl == SortByZ(ct_files) IN
         /\ slices' = sl
         /\ z_positions' = ZPositions(sl)
         /\ IF Len(sl) = 0
            THEN /\ error' = Raise("IndexError", 63)
                 /\ pc' = "failed"
                 /\ UNCHANGED <<pixel_spacing, slice_thickness, mask>>
            ELSE IF Len(sl) = 1
            THEN /\ pixel_spacing' = sl[1].PixelSpacing
                 /\ error' = Raise("IndexError", 64)
                 /\ pc' = "failed"
                 /\ UNCHANGED <<slice_thickness, mask>>
            ELSE /\ pixel_spacing' = sl[1].PixelSpacing
                 /\ slice_thickness' = SliceThickness(sl)
                 /\ mask' = ZeroMask(sl)
                 /\ pc' = "resolve"
                 /\ UNCHANGED error
    /\ UNCHANGED <<ct_files, rtstruct, structure_name, structure_index, i, j, spacing,
                   verts, faces, normals, centroid, mesh, exported>>
    /\ UNCHANGED gui_vars

\* extract_structure_mask, lines 69-75: find the ROI number of the name.
ResolveStructure ==
    /\ pc = "resolve"
    /\ structure_index' = ResolveROI(rtstruct.StructureSetROISequence, structure_name)
    /\ IF structure_index' = None
       THEN /\ error' = Raise("ValueError", 75)
            /\ pc' = "failed"
            /\ UNCHANGED <<i, j>>
       ELSE /\ pc' = "contours"
            /\ i' = 1 /\ j' = 1
            /\ UNCHANGED error
    /\ UNCHANGED <<ct_files, rtstruct, structure_name, slices, z_positions, pixel_spacing,
                   slice_thickness, mask, spacing, verts, faces, normals, centroid,
                   mesh, exported>>
    /\ UNCHANGED gui_vars

\* The roi_contour and the contour the loops of lines 78-94 stand at.
AtROIContour == pc = "contours" /\ i <= Len(rtstruct.ROIContourSequence)
roi_contour == rtstruct.ROIContourSequence[i]
Selected == roi_contour.ReferencedROINumber = structure_index[1]
contour == roi_contour.ContourSequence[j]

\* slice_idx of a contour
SliceIdx(pts) == ArgMinAbs(z_positions, pts[1][3])

\* Line 79 is false, or the inner loop is over: on to the next roi_contour.
NextROIContour ==
    /\ AtROIContour
    /\ ~Selected \/ j > Len(roi_contour.ContourSequence)
    /\ i' = i + 1 /\ j' = 1
    /\ UNCHANGED <<pc, ct_files, rtstruct, structure_name, slices, z_positions,
                   pixel_spacing, slice_thickness, mask, structure_index, error, spacing,
                   verts, faces, normals, centroid, mesh, exported>>
    /\ UNCHANGED gui_vars

\* Lines 81-94: one contour of the selected ROI is rasterized into its slice.
RasterizeContour ==
    /\ AtROIContour
    /\ Selected /\ j <= Len(roi_contour.ContourSequence)
    /\ LET slice_idx  == SliceIdx(contour)
           mask_slice == MaskSlice(contour, slices[1], pixel_spacing)
       IN  mask' = [mask EXCEPT ![slice_idx] = AssignSlice(@, mask_slice)]
    /\ j' = j + 1
    /\ UNCHANGED <<pc, ct_files, rtstruct, structure_name, slices, z_positions,
                   pixel_spacing, slice_thickness, structure_index, i, error, spacing,
                   verts, faces, normals, centroid, mesh, exported>>
    /\ UNCHANGED gui_vars

\* Line 96, and main's call of mask_to_stl.
ReturnMask ==
    /\ pc = "contours" /\ i > Len(rtstruct.ROIContourSequence)
    /\ pc' = "mask_to_stl"
    /\ UNCHANGED <<ct_files, rtstruct, structure_name, slices, z_positions,
                   pixel_spacing, slice_thickness, mask, structure_index, i, j, error,
                   spacing, verts, faces, normals, centroid, mesh, exported>>
    /\ UNCHANGED gui_vars

\* mask_to_stl, lines 111-113.
ExtractIsosurface ==
    /\ pc = "mask_to_stl"
    /\ spacing' = McSpacing(slice_thickness, pixel_spacing)
    /\ IF MarchingCubesRaises(mask)
       THEN /\ error' = Raise("ValueError", 111)
            /\ pc' = "failed"
            /\ UNCHANGED <<verts, faces, normals>>
       ELSE /\ LET mc == MarchingCubes(mask, spacing') IN
                 /\ verts' = mc.verts
                 /\ faces' = mc.faces
                 /\ normals' = mc.normals
            /\ pc' = "build"
            /\ UNCHANGED error
    /\ UNCHANGED <<ct_files, rtstruct, structure_name, slices, z_positions,
                   pixel_spacing, slice_thickness, mask, structure_index, i, j,
                   centroid, mesh, exported>>
    /\ UNCHANGED gui_vars

\* mask_to_stl, line 115.
BuildMesh ==
    /\ pc = "build"
    /\ mesh' = Trimesh(verts, faces, normals)
    /\ pc' = "normalize"
    /\ UNCHANGED <<ct_files, rtstruct, structure_name, slices, z_positions,
                   pixel_spacing, slice_thickness, mask, structure_index, i, j, error,
                   spacing, verts, faces, normals, centroid, exported>>
    /\ UNCHANGED gui_vars

\* mask_to_stl, line 116.
NormalizeMesh ==
    /\ pc = "normalize"
    /\ centroid' = Centroid(mesh)
    /\ mesh' = ApplyTranslation(mesh, Neg(centroid'))
    /\ pc' = "export"
    /\ UNCHANGED <<ct_files, rtstruct, structure_name, slices, z_positions,
                   pixel_spacing, slice_thickness, mask, structure_index, i, j, error,
                   spacing, verts, faces, normals, exported>>
    /\ UNCHANGED gui_vars

\* mask_to_stl, line 117.
ExportMesh ==
    /\ pc = "export"
    /\ exported' = <<mesh>>
    /\ pc' = "done"
    /\ UNCHANGED <<ct_files, rtstruct, structure_name, slices, z_positions,
                   pixel_spacing, slice_thickness, mask, structure_index, i, j, error,
                   spacing, verts, faces, normals, centroid, mesh>>
    /\ UNCHANGED gui_vars

Next ==
    \/ ReadSlices
    \/ ResolveStructure
    \/ NextROIContour
    \/ RasterizeContour
    \/ ReturnMask
    \/ ExtractIsosurface
    \/ BuildMesh
    \/ NormalizeMesh
    \/ ExportMesh

Spec == Init /\ [][Next]_vars

\* ------------------------------------------- the pipeline, as one function
RECURSIVE RasterizeAll(_, _, _, _)
\* The inner loop of lines 80-94 over a ContourSequence, from contour n on.
RasterizeAll(m, cs, n, sl) ==
    IF n > Len(cs) THEN m
    ELSE LET slice_idx  == ArgMinAbs(ZPositions(sl), cs[n][1][3])
             mask_slice == MaskSlice(cs[n], sl[1], sl[1].PixelSpacing)
         IN  RasterizeAll([m EXCEPT ![slice_idx] = AssignSlice(@, mask_slice)], cs, n + 1, sl)

RECURSIVE BuildMask(_, _, _, _, _)
\* The outer loop of lines 78-94 over ROIContourSequence, from item n on.
BuildMask(m, rcs, n, index, sl) ==
    IF n > Len(rcs) THEN m
    ELSE IF rcs[n].ReferencedROINumber = index
         THEN BuildMask(RasterizeAll(m, rcs[n].ContourSequence, 1, sl), rcs, n + 1, index, sl)
         ELSE BuildMask(m, rcs, n + 1, index, sl)

\* extract_structure_mask(rtstruct, ct_folder, structure_name): the exception
\* it raises, or the mask, the pixel spacing and the slice thickness.
extract_structure_mask(rt, files, name) ==
    LET sl    == SortByZ(files)
        index == ResolveROI(rt.StructureSetROISequence, name)
    IN  IF Len(sl) = 0 THEN [error |-> Raise("IndexError", 63)]
        ELSE IF Len(sl) = 1 THEN [error |-> Raise("IndexError", 64)]
        ELSE IF index = None THEN [error |-> Raise("ValueError", 75)]
        ELSE [error |-> NoError,
              mask |-> BuildMask(ZeroMask(sl), rt.ROIContourSequence, 1, index[1], sl),
              pixel_spacing |-> sl[1].PixelSpacing,
              slice_thickness |-> SliceThickness(sl)]

\* mask_to_stl(mask, pixel_spacing, slice_thickness, output_path): the
\* exception it raises, or the mesh it exports.
mask_to_stl(m, ps, dz) ==
    IF MarchingCubesRaises(m) THEN [error |-> Raise("ValueError", 111)]
    ELSE LET mc    == MarchingCubes(m, McSpacing(dz, ps))
             built == Trimesh(mc.verts, mc.faces, mc.normals)
         IN  [error |-> NoError, mesh |-> ApplyTranslation(built, Neg(Centroid(built)))]

\* --------------------------------------------------------------- the GUI
\* The files the dialogs of the GUI can select, and what they hold.
RTPath  == "RS.dcm"
CTPath  == "pasta_tc"
OutPath == "BolusECT.stl"
RTFile ==
    [StructureSetROISequence |->
        << [ROIName |-> Body, ROINumber |-> 1], [ROIName |-> BolusECT_v9, ROINumber |-> 2] >>,
     ROIContourSequence |->
        << [ReferencedROINumber |-> 1, ContourSequence |-> <<Contour(NestedBand, 0)>>],
           [ReferencedROINumber |-> 2, ContourSequence |-> <<>>] >>]
CTFolder ==
    LET g == CHOOSE h \in SeriesGeometry : h.PixelSpacing = <<1, 1>>
    IN  << ImageSlice(1, g, 2), ImageSlice(2, g, 0) >>

InitGui ==
    /\ GuiIdle
    /\ InitLocals
    /\ ct_files = <<>>
    /\ rtstruct = [StructureSetROISequence |-> <<>>, ROIContourSequence |-> <<>>]
    /\ structure_name = <<>>

\* select_rt, select_ct_folder, select_output: the dialog returned a path.
select_rt ==
    /\ entries' = [entries EXCEPT !.rt = RTPath]
    /\ UNCHANGED <<combo_values, workers, log_lines, out_file>>
    /\ UNCHANGED pipeline_vars
select_ct_folder ==
    /\ entries' = [entries EXCEPT !.ct = CTPath]
    /\ UNCHANGED <<combo_values, workers, log_lines, out_file>>
    /\ UNCHANGED pipeline_vars
select_output ==
    /\ entries' = [entries EXCEPT !.out = OutPath]
    /\ UNCHANGED <<combo_values, workers, log_lines, out_file>>
    /\ UNCHANGED pipeline_vars

\* load_structures: the names of the RTSTRUCT fill the combo box, the first
\* one selected; an unreadable path is logged.
load_structures ==
    /\ log_lines < MaxLogLines
    /\ IF entries.rt = ""
       THEN UNCHANGED <<entries, combo_values>>
       ELSE LET names == get_structure_names(RTFile.StructureSetROISequence) IN
              /\ combo_values' = names
              /\ entries' = [entries EXCEPT !.struct = IF names # <<>> THEN names[1] ELSE ""]
    /\ log_lines' = log_lines + 1
    /\ UNCHANGED <<workers, out_file>>
    /\ UNCHANGED pipeline_vars

\* The user picks another value of the read-only combo box.
select_structure ==
    /\ \E n \in 1..Len(combo_values) :
         /\ entries.struct # combo_values[n]
         /\ entries' = [entries EXCEPT !.struct = combo_values[n]]
    /\ UNCHANGED <<combo_values, workers, log_lines, out_file>>
    /\ UNCHANGED pipeline_vars

\* run_conversion: a click on Execute starts a thread that runs process.
run_conversion ==
    /\ Len(workers) < MaxClicks
    /\ workers' = Append(workers, [pc |-> "start", error |-> NoError])
    /\ UNCHANGED <<entries, combo_values, log_lines, out_file>>
    /\ UNCHANGED pipeline_vars

\* The threads that are executing the pipeline: past the check of the fields,
\* not yet finished or failed.
InFlight == { w \in 1..Len(workers) : workers[w].pc \in {"extract", "export", "report"} }

\* The except clause of process: the error is logged and shown.
Failed(w, fields, e) ==
    /\ workers' = [workers EXCEPT ![w] = [pc |-> "failed", error |-> e] @@ fields]
    /\ log_lines' = log_lines + 1

\* process, lines 183-186: the four fields are read one widget call at a
\* time; each call is served by the main loop, so callbacks of the window and
\* calls of other threads can run between two of them.
ProcessReadRt(w) ==
    /\ workers[w].pc = "start"
    /\ workers' = [workers EXCEPT ![w] = [pc |-> "read_ct", rt_path |-> entries.rt] @@ @]
    /\ UNCHANGED <<entries, combo_values, log_lines, out_file>>
    /\ UNCHANGED pipeline_vars
ProcessReadCt(w) ==
    /\ workers[w].pc = "read_ct"
    /\ workers' = [workers EXCEPT ![w] = [pc |-> "read_struct", ct_folder |-> entries.ct] @@ @]
    /\ UNCHANGED <<entries, combo_values, log_lines, out_file>>
    /\ UNCHANGED pipeline_vars
ProcessReadStruct(w) ==
    /\ workers[w].pc = "read_struct"
    /\ workers' = [workers EXCEPT ![w] = [pc |-> "read_out", struct_name |-> entries.struct] @@ @]
    /\ UNCHANGED <<entries, combo_values, log_lines, out_file>>
    /\ UNCHANGED pipeline_vars
ProcessReadOut(w) ==
    /\ workers[w].pc = "read_out"
    /\ workers' = [workers EXCEPT ![w] = [pc |-> "check", out_path |-> entries.out] @@ @]
    /\ UNCHANGED <<entries, combo_values, log_lines, out_file>>
    /\ UNCHANGED pipeline_vars

\* process, lines 188-191: the fields the thread holds are checked, and
\* "Processando..." is logged.
ProcessCheck(w) ==
    /\ workers[w].pc = "check"
    /\ IF \/ workers[w].rt_path = "" \/ workers[w].ct_folder = ""
          \/ workers[w].struct_name = "" \/ workers[w].out_path = ""
       THEN Failed(w, workers[w], Raise("ValueError", 189))
       ELSE /\ workers' = [workers EXCEPT ![w].pc = "extract"]
            /\ log_lines' = log_lines + 1
    /\ UNCHANGED <<entries, combo_values, out_file>>
    /\ UNCHANGED pipeline_vars

\* process, lines 192-193: load_rtstruct and extract_structure_mask.
ProcessExtract(w) ==
    /\ workers[w].pc = "extract"
    /\ LET got == extract_structure_mask(RTFile, CTFolder, workers[w].struct_name) IN
         IF got.error # NoError
         THEN Failed(w, workers[w], got.error)
         ELSE /\ workers' = [workers EXCEPT ![w].pc = "export"]
              /\ UNCHANGED log_lines
    /\ UNCHANGED <<entries, combo_values, out_file>>
    /\ UNCHANGED pipeline_vars

\* process, line 194: mask_to_stl writes the file at out_path.
ProcessExport(w) ==
    /\ workers[w].pc = "export"
    /\ LET got == extract_structure_mask(RTFile, CTFolder, workers[w].struct_name)
           stl == mask_to_stl(got.mask, got.pixel_spacing, got.slice_thickness)
       IN  IF stl.error # NoError
           THEN /\ Failed(w, workers[w], stl.error)
                /\ UNCHANGED out_file
           ELSE /\ workers' = [workers EXCEPT ![w].pc = "report"]
                /\ out_file' = Append(out_file, w)
                /\ UNCHANGED log_lines
    /\ UNCHANGED <<entries, combo_values>>
    /\ UNCHANGED pipeline_vars

\* process, lines 195-196: success is logged and shown.
ProcessReport(w) ==
    /\ workers[w].pc = "report"
    /\ workers' = [workers EXCEPT ![w].pc = "finished"]
    /\ log_lines' = log_lines + 1
    /\ UNCHANGED <<entries, combo_values, out_file>>
    /\ UNCHANGED pipeline_vars

process ==
    \E w \in 1..Len(workers) :
        \/ ProcessReadRt(w)
        \/ ProcessReadCt(w)
        \/ ProcessReadStruct(w)
        \/ ProcessReadOut(w)
        \/ ProcessCheck(w)
        \/ ProcessExtract(w)
        \/ ProcessExport(w)
        \/ ProcessReport(w)

NextGui ==
    \/ select_rt
    \/ select_ct_folder
    \/ select_output
    \/ load_structures
    \/ select_structure
    \/ run_conversion
    \/ process

SpecGui == InitGui /\ [][NextGui]_vars

\* ================================================================== claims
Resolved == pc \in {"contours", "mask_to_stl", "build", "normalize", "export", "done"}
            \/ (pc = "failed" /\ error.line = 111)
ROIs == rtstruct.StructureSetROISequence

\* The error kinds of the specification, as the code raises them.
InsufficientDataError  == error.type = "IndexError"
StructureNotFoundError == error = Raise("ValueError", 75)
EmptyVolumeError       == error = Raise("ValueError", 111)

\* The requested name is, up to letter case, the name of no ROI.
NoMatch == \A r \in 1..Len(ROIs) : structure_name \notin CaseVariants(ROIs[r].ROIName)
\* The requested name is a name of the list of get_structure_names, in some
\* letter case.
DrawnFromList ==
    LET names == get_structure_names(ROIs)
    IN  \E n \in 1..Len(names) : structure_name \in CaseVariants(names[n])

\* C1 as stated: a name that matches no ROI ends the request with
\* StructureNotFoundError, whatever the image slices are.
C1_NotFoundForEverySliceSet ==
    (NoMatch /\ pc \notin {"read", "resolve"}) => (pc = "failed" /\ StructureNotFoundError)

\* C1, amended: with at least two image slices in the folder, a name that
\* matches no ROI (in any letter case) ends the request with
\* StructureNotFoundError: the run never gets past the resolver and fails with
\* no other error.
C1_NotFoundGivenTwoSlices ==
    (NoMatch /\ Len(ct_files) >= 2 /\ pc \notin {"read", "resolve"})
        => (pc = "failed" /\ StructureNotFoundError)

\* The resolver has raised for a name that matches neither of two ROIs, the
\* folder holding at least two slices.
C1_Witness ==
    /\ pc = "failed" /\ StructureNotFoundError
    /\ NoMatch /\ Len(ct_files) >= 2
    /\ Len(ROIs) = 2 /\ structure_name # <<>>

\* C2: a request for a name drawn from the list of get_structure_names, in any
\* letter case, never raises StructureNotFoundError.
C2_ListedNameResolves ==
    DrawnFromList => (~StructureNotFoundError /\ (Resolved => structure_index # None))

\* A listed name requested in another letter case has resolved to the second
\* ROI of the sequence.
C2_Witness ==
    /\ Resolved
    /\ DrawnFromList
    /\ \A r \in 1..Len(ROIs) : ROIs[r].ROIName # structure_name
    /\ Len(ROIs) = 2
    /\ structure_index = Some(ROIs[2].ROINumber)

\* C6: with fewer than two image slices the request ends with
\* InsufficientDataError whatever name is requested, no mask is produced, and
\* that error kind is raised in no other case.
C6_InsufficientData ==
    /\ (Len(ct_files) < 2 /\ pc # "read")
          => (pc = "failed" /\ InsufficientDataError /\ mask = <<>> /\ exported = <<>>)
    /\ InsufficientDataError => Len(ct_files) < 2

\* A folder of one slice and a listed name: the request has failed with
\* InsufficientDataError.
C6_Witness ==
    /\ pc = "failed" /\ InsufficientDataError
    /\ Len(ct_files) = 1
    /\ DrawnFromList

\* C5 as stated: with at least two slices, in any order and with repeated
\* positions allowed, the position array is sorted ascending and the
\* inter-slice spacing is strictly positive.
C5_SortedAndPositiveSpacing ==
    (Len(ct_files) >= 2 /\ pc # "read")
        => /\ \A a, b \in 1..Len(z_positions) : a < b => z_positions[a] <= z_positions[b]
           /\ slice_thickness = Abs(z_positions[2] - z_positions[1])
           /\ slice_thickness > 0

\* The contours of the selected ROI, as <<roi_contour index, contour index>>,
\* and the ones the loops have rasterized so far.
SelectedContours ==
    { p \in (1..Len(rtstruct.ROIContourSequence)) \X (1..MaxContours + 1) :
        /\ rtstruct.ROIContourSequence[p[1]].ReferencedROINumber = structure_index[1]
        /\ p[2] <= Len(rtstruct.ROIContourSequence[p[1]].ContourSequence) }
Rasterized ==
    { p \in SelectedContours : pc # "contours" \/ p[1] < i \/ (p[1] = i /\ p[2] < j) }
ContourAt(p) == rtstruct.ROIContourSequence[p[1]].ContourSequence[p[2]]

\* The slices that minimise the through-plane distance to z (0-based).
NearestSlices(z) ==
    { k \in DOMAIN mask :
        \A h \in DOMAIN mask : Abs(z_positions[k + 1] - z) <= Abs(z_positions[h + 1] - z) }
\* The slice a contour is assigned to: the first of the nearest ones.
AssignedSlice(pts) == Min(NearestSlices(pts[1][3]))
\* The mask of one contour rasterized alone.
AloneMask(pts) == MaskSlice(pts, slices[1], pixel_spacing)

\* No occupied cell is cleared by a step.
NeverCleared ==
    (pc = "contours" /\ pc' = "contours") =>
        \A k \in DOMAIN mask : \A r \in DOMAIN mask[k] : \A c \in DOMAIN mask[k][r] :
            mask[k][r][c] = 1 => mask'[k][r][c] = 1
\* A contour of the resolved ROI leaves on its slice the OR of what was there
\* and of its own mask.
StepIsOr ==
    (AtROIContour /\ pc' = "contours" /\ Selected /\ j <= Len(roi_contour.ContourSequence)) =>
        LET k == AssignedSlice(contour)
            alone == AloneMask(contour)
        IN  \A r \in DOMAIN mask[k] : \A c \in DOMAIN mask[k][r] :
                mask'[k][r][c] = 1 <=> (mask[k][r][c] = 1 \/ alone[r][c])
\* Every slice of the mask is the OR of the masks of the contours rasterized
\* so far that are assigned to it.
MaskIsUnion ==
    \A k \in DOMAIN mask : \A r \in DOMAIN mask[k] : \A c \in DOMAIN mask[k][r] :
        mask[k][r][c] = 1 <=>
            \E p \in Rasterized :
                AssignedSlice(ContourAt(p)) = k /\ AloneMask(ContourAt(p))[r][c]
\* The mask that is returned is the OR of the masks of all the contours.
FinalIsUnion == (pc = "mask_to_stl" /\ pc' # pc) => MaskIsUnion

\* C3: while the contours of the resolved ROI are processed no occupied cell is
\* ever cleared, every contour ORs its mask into its slice, and each slice of
\* the final mask equals the logical OR of the individually rasterized masks
\* of the contours assigned to it.
C3_UnionNeverCleared == [][NeverCleared /\ StepIsOr /\ FinalIsUnion]_vars

\* Two contours on one slice, each covering a cell the other does not, and a
\* nested pair: the final mask holds the cells of both.
C3_Witness ==
    /\ pc = "mask_to_stl"
    /\ \E p, q \in Rasterized :
         /\ p # q /\ p[1] = q[1] /\ p[2] < q[2]
         /\ AssignedSlice(ContourAt(p)) = AssignedSlice(ContourAt(q))
         /\ LET k == AssignedSlice(ContourAt(p))
                P == AloneMask(ContourAt(p))
                Q == AloneMask(ContourAt(q))
            IN  /\ \E r \in DOMAIN P : \E c \in DOMAIN P[r] :
                      P[r][c] /\ ~Q[r][c] /\ mask[k][r][c] = 1
                /\ \E r \in DOMAIN P : \E c \in DOMAIN P[r] :
                      Q[r][c] /\ ~P[r][c] /\ mask[k][r][c] = 1

\* The slices a step changes.
ChangedSlices == { k \in DOMAIN mask : mask'[k] # mask[k] }
\* The contour covers a cell of slice k that is not occupied yet.
CoversEmptyCell(pts, k) ==
    \E r \in DOMAIN mask[k] : \E c \in DOMAIN mask[k][r] :
        AloneMask(pts)[r][c] /\ mask[k][r][c] = 0
\* The step of a contour of the resolved ROI changes exactly one slice, one
\* that minimises |position_k - z|; the step of another ROI changes none.
ContourChangesOneSlice ==
    (AtROIContour /\ pc' = "contours") =>
        IF Selected /\ j <= Len(roi_contour.ContourSequence)
        THEN \E k \in NearestSlices(contour[1][3]) : ChangedSlices = {k}
        ELSE mask' = mask
\* The step of a contour of the resolved ROI changes no slice but the first of
\* those that minimise |position_k - z|, and changes that one exactly when the
\* contour covers a cell of it that is not occupied yet; the step of another
\* ROI changes none.
ContourWritesOneSlice ==
    (AtROIContour /\ pc' = "contours") =>
        IF Selected /\ j <= Len(roi_contour.ContourSequence)
        THEN /\ ChangedSlices \subseteq NearestSlices(contour[1][3])
             /\ \A k \in ChangedSlices : \A h \in NearestSlices(contour[1][3]) : k <= h
             /\ ChangedSlices # {} <=> CoversEmptyCell(contour, Min(NearestSlices(contour[1][3])))
        ELSE mask' = mask

\* C9, as stated: every contour of the resolved ROI changes the mask on exactly
\* one slice index, a slice that minimises |position_k - z|, and the contours
\* of other ROIs change no slice.
C9_ContourChangesExactlyOneSlice == [][ContourChangesOneSlice]_vars

\* C9, amended: a contour of the resolved ROI changes the mask on at most one
\* slice index, the first slice that minimises |position_k - z|, and on that
\* slice exactly when it covers a cell not occupied yet (a contour that covers
\* occupied cells only, or no cell, changes no slice); every other slice is
\* left unchanged, and the contours of other ROIs change no slice.
C9_ContourWritesNearestSliceOnly == [][ContourWritesOneSlice]_vars

\* A contour whose plane is equally near to two slices has been written to the
\* first of them, which is not the first slice, the others being still empty.
C9_Witness ==
    /\ pc = "contours" /\ Len(slices) = 3 /\ j = 2
    /\ Selected
    /\ z_positions[1] < z_positions[2] /\ z_positions[2] = z_positions[3]
    /\ roi_contour.ContourSequence[1][1][3] > z_positions[2]
    /\ \E r \in DOMAIN mask[1] : \E c \in DOMAIN mask[1][r] : mask[1][r][c] = 1
    /\ \A k \in {0, 2} : \A r \in DOMAIN mask[k] : \A c \in DOMAIN mask[k][r] : mask[k][r][c] = 0

AllZero(m) == m # <<>> /\ \A v \in Voxels(m) : ValueAt(m, v) = 0
\* The mask has been handed to mask_to_stl and marching_cubes has been called.
Extracted == pc \in {"build", "normalize", "export", "done"} \/ (pc = "failed" /\ error.line = 111)

\* C4: an all-zero mask handed to mask_to_stl ends in EmptyVolumeError; no mesh
\* is built from it and nothing is exported.
C4_AllZeroMaskRaises ==
    (Extracted /\ AllZero(mask))
        => (pc = "failed" /\ EmptyVolumeError /\ mesh = NoMesh /\ exported = <<>>)

\* The ROI exists, has no contour, and the run ended in EmptyVolumeError.
C4_Witness ==
    /\ pc = "failed" /\ EmptyVolumeError /\ AllZero(mask)
    /\ structure_index # None
    /\ SelectedContours = {}

\* C7 as stated: between the output of marching_cubes and the mesh handed to
\* export the vertex list keeps its length and order, every vertex is moved by
\* the negated centroid, and the face list and the normal list are unchanged.
C7_NormalizationIsTranslation ==
    (pc \in {"export", "done"}) =>
        /\ Len(mesh.vertices.at) = Len(verts)
        /\ mesh.vertices = [at |-> verts, moved_by |-> Neg(centroid)]
        /\ mesh.faces = faces
        /\ mesh.vertex_normals = normals
        /\ (pc = "done" => exported = <<mesh>>)

\* C10 as stated: the spacing that divides the y offset in the rasterizer is
\* the row-axis spacing handed to marching_cubes, and the spacing that divides
\* the x offset is the column-axis spacing.
C10_SameSpacingPerAxis ==
    Extracted =>
        /\ spacing[2] = RowDivisor(pixel_spacing)
        /\ spacing[3] = ColDivisor(pixel_spacing)

\* C8 as stated: whatever the clicks on Execute, at most one process thread is
\* executing the pipeline at any time, so no two execute it against the same
\* output path.
C8_AtMostOneInFlight ==
    /\ Cardinality(InFlight) <= 1
    /\ \A v, w \in InFlight : v # w => workers[v].out_path # workers[w].out_path

====
